---- MODULE Spec2Model ----
(***************************************************************************)
(* Process supervision core of cardano-launcher.                           *)
(*                                                                         *)
(* Service  : startService() of src/src/service.ts, the state machine      *)
(*            around one child process.                                    *)
(* Launcher : class Launcher of the cardanoLauncher module                 *)
(*            (src/unnamed/part_005), which owns a wallet and a node       *)
(*            Service.                                                     *)
(*                                                                         *)
(* The JavaScript event loop is modelled as follows.  Promise              *)
(* continuations are microtasks: startQ holds the continuations of         *)
(* `cfg = await cfgP` in Service.start(), thenQ the `.then` callbacks of   *)
(* Launcher.stop() whose Promise.all has settled.  Callbacks of the        *)
(* environment (child process events, timers, sockets, signals, descriptor *)
(* resolution) are macrotasks and run only when no microtask is pending.   *)
(* Calls of the API user may happen between any two tasks.                 *)
(***************************************************************************)
EXTENDS Integers, Sequences, FiniteSets, TLC

VARIABLES
  service,     \* per Service: the closure variables of startService()
  cfgP,        \* per Service: state of the descriptor promise
  awaiting,    \* per Service: number of start() calls suspended on a pending cfgP
  startQ,      \* microtasks: Service.start() continuations ready to resume
  thenQ,       \* microtasks: Launcher.stop() calls whose Promise.all has settled
  procs,       \* per Service: the child processes it has spawned so far
  stops,       \* the Launcher.stop() calls whose Promise.all is still pending
  stopOutcomes,\* how the promises returned by Launcher.stop() were settled
  starts,      \* one record per Launcher.start() call (promise and readiness poll)
  returned,    \* per Service: the values start() promises were fulfilled with
  apiPort,     \* Launcher.apiPort
  exited,      \* Launcher.exited
  exitLog,     \* payloads of the `exit` events emitted so far
  readyCount,  \* number of `ready` events emitted so far
  calls,       \* number of calls made by the API user and of signal handler runs
  exitCode     \* cli: the code given to process.exit(), Null before

vars == <<service, cfgP, awaiting, startQ, thenQ, procs, stops, stopOutcomes,
          starts, returned, apiPort, exited, exitLog, readyCount, calls,
          exitCode>>

-----------------------------------------------------------------------------
(* Bounds of the model *)

\* calls of Launcher.start(), calls of Launcher.stop() by the API user, and
\* runs of the termination signal handler
MaxStart == 2
MaxStop == 1
MaxSignal == 1

\* calls of Launcher.start() in the specification that includes the
\* readiness poll
MaxPolls == 1

\* calls of Service.waitForExit() by the API user
MaxWait == 1

-----------------------------------------------------------------------------
(* Values *)

Svc == {"wallet", "node"}

\* null / undefined, and a present value
Null == <<>>
Some(x) == <<x>>

\* enum ServiceStatus
NotStarted == "NotStarted"
Started == "Started"
Stopping == "Stopping"
Stopped == "Stopped"

ServiceStatus == {NotStarted, Started, Stopping, Stopped}

\* numeric value of the enum members, used by the `>` of stopWaiting
Rank(st) ==
  CASE st = NotStarted -> 0
    [] st = Started -> 1
    [] st = Stopping -> 2
    [] st = Stopped -> 3

\* interface ServiceExitStatus
ServiceExitStatus(s, code, signal, err) ==
  [exe |-> s, code |-> code, signal |-> signal, err |-> err]

\* `defaultExitStatus` of waitForExit
defaultExitStatus(s) == ServiceExitStatus(s, Null, Null, Null)

\* states of a promise
Pending == <<"pending">>
Rejected == <<"rejected">>
Resolved(v) == <<"resolved", v>>

\* port handed out by getPort() for the wallet API server
WalletApiPort == 8090

\* the default of the timeoutSeconds parameter of stop()
DefaultTimeout == 60

\* the descriptors (StartService) the two cfgP promises resolve to: the wallet
\* is stopped by closing its stdin, the node by SIGTERM
descr ==
  [wallet |-> [supportsCleanShutdown |-> TRUE],
   node |-> [supportsCleanShutdown |-> FALSE]]

-----------------------------------------------------------------------------
(* Child processes *)

\* process id of the i-th child process of Service s
Pid(s, i) == 2 * i + (IF s = "node" THEN 1 ELSE 0)

\* proc.pid: undefined when the process could not be spawned
pidOf(ps, s, i) == IF ps[s][i].st = "failed" THEN Null ELSE Some(Pid(s, i))

\* How a running child process of s can end: by itself with an exit code, or
\* by a signal.  After SIGKILL has been delivered nothing else can happen.
Endings(s, p) ==
  IF p.kill
    THEN {ServiceExitStatus(s, Null, Some("SIGKILL"), Null)}
    ELSE {ServiceExitStatus(s, Some(c), Null, Null) : c \in {0, 1}}
         \cup {ServiceExitStatus(s, Null, Some("SIGTERM"), Null)}

\* proc.stdin.end() / proc.kill(sig) on the i-th child process of s
Signal(ps, s, i, what) ==
  [ps EXCEPT ![s][i].sent = Append(@, what),
             ![s][i].kill = @ \/ (what = "SIGKILL" /\ ps[s][i].st = "run")]

-----------------------------------------------------------------------------
(* Service: the functions of startService(), as operators on the record    *)
(* W = [service, procs, stops]                                             *)

\* the other Service of the Launcher
Other(s) == IF s = "wallet" THEN "node" ELSE "wallet"

\* `const x = e; F(x)`: e is evaluated once, before F
Bind(e, F(_)) == CHOOSE r \in {F(x) : x \in {e}} : TRUE

setStatus(W, s, newStatus) ==
  [W EXCEPT !.service[s].status = newStatus,
            !.service[s].events = Append(@, newStatus)]

\* the timer is armed with the default delay, whatever the caller asked for
doStopDefault(W, s, timeoutSeconds) ==
  LET sv == W.service[s]
      W1 == setStatus(W, s, Stopping)
      ps == IF sv.proc = Null
              THEN W.procs
              ELSE Signal(W.procs, s, sv.proc[1],
                          IF descr[s].supportsCleanShutdown
                            THEN "stdin.end" ELSE "SIGTERM")
  IN [W1 EXCEPT !.procs = ps,
                !.service[s].stale = IF sv.killTimer = "armed" THEN @ + 1 ELSE @,
                !.service[s].killTimer = "armed",
                !.service[s].timeout = Some(DefaultTimeout)]

\* the process is sent SIGTERM whatever its shutdown method is
doStopSignal(W, s, timeoutSeconds) ==
  LET sv == W.service[s]
      W1 == setStatus(W, s, Stopping)
      ps == IF sv.proc = Null
              THEN W.procs
              ELSE Signal(W.procs, s, sv.proc[1],
                          "SIGTERM")
  IN [W1 EXCEPT !.procs = ps,
                !.service[s].stale = IF sv.killTimer = "armed" THEN @ + 1 ELSE @,
                !.service[s].killTimer = "armed",
                !.service[s].timeout = Some(timeoutSeconds)]

\* `timeout` keeps the delay, in seconds, that killTimer was last armed with
doStop(W, s, timeoutSeconds) ==
  LET sv == W.service[s]
      W1 == setStatus(W, s, Stopping)
      ps == IF sv.proc = Null
              THEN W.procs
              ELSE Signal(W.procs, s, sv.proc[1],
                          IF descr[s].supportsCleanShutdown
                            THEN "stdin.end" ELSE "SIGTERM")
  IN [W1 EXCEPT !.procs = ps,
                !.service[s].stale = IF sv.killTimer = "armed" THEN @ + 1 ELSE @,
                !.service[s].killTimer = "armed",
                !.service[s].timeout = Some(timeoutSeconds)]

\* waitForExit(): the new state and the promise it returns.  Reading
\* cfg.command throws when cfg has not been assigned yet.
waitForExit(W, s) ==
  LET sv == W.service[s] IN
  IF ~sv.cfg THEN [W |-> W, res |-> Rejected]
  ELSE CASE sv.status = NotStarted ->
              [W |-> [W EXCEPT !.service[s].status = Stopped,
                               !.service[s].exitStatus = Some(defaultExitStatus(s))],
               res |-> Resolved(defaultExitStatus(s))]
         [] sv.status \in {Started, Stopping} ->
              [W |-> W, res |-> Pending]
         [] sv.status = Stopped ->
              [W |-> W,
               res |-> Resolved(IF sv.exitStatus = Null
                                  THEN defaultExitStatus(s)
                                  ELSE sv.exitStatus[1])]

\* Service.stop(timeoutSeconds): the new state and the promise it returns.
\* `results` collects how the stop() promises of s are settled, each with the
\* status the Service had at the call, and `waiters` tells that a promise of
\* waitForStop() is still pending.
stop(W, s, timeoutSeconds) ==
  LET st == W.service[s].status IN
  Bind(IF st = Started THEN doStop(W, s, timeoutSeconds) ELSE W, LAMBDA W1 :
  Bind(waitForExit(W1, s), LAMBDA r :
    [W |-> [r.W EXCEPT !.service[s].waiters = @ \/ r.res = Pending,
                       !.service[s].results =
                          IF r.res = Pending THEN @ ELSE @ \cup {<<st, r.res>>}],
     res |-> r.res]))

\* Launcher.stop() up to the Promise.all: both Service.stop() calls
LauncherStop(W, timeoutSeconds) ==
  Bind(stop(W, "wallet", timeoutSeconds), LAMBDA w :
  Bind(stop(w.W, "node", timeoutSeconds), LAMBDA n :
    [n.W EXCEPT !.stops = Append(@, [wallet |-> w.res, node |-> n.res])]))

\* the listeners resolve only when the process has run
waitForStopRan(W, s) ==
  LET sv == W.service[s] IN
  IF sv.status = Stopped /\ sv.exitStatus # Null /\ sv.exitStatus[1].err = Null
    THEN [W EXCEPT
            !.stops = [k \in DOMAIN @ |->
               IF @[k][s] = Pending
                 THEN [@[k] EXCEPT ![s] = Resolved(sv.exitStatus[1])]
                 ELSE @[k]],
            !.service[s].waiters = FALSE,
            !.service[s].exitPending = {},
            !.service[s].exits =
               @ \cup {<<st, Resolved(sv.exitStatus[1])>> : st \in sv.exitPending},
            !.service[s].results =
               IF sv.waiters THEN @ \cup {<<"waited", Resolved(sv.exitStatus[1])>>}
                             ELSE @]
    ELSE W

\* the statusChanged listeners that waitForStop() registered on Service s
waitForStop(W, s) ==
  LET sv == W.service[s] IN
  IF sv.status = Stopped /\ sv.exitStatus # Null
    THEN [W EXCEPT
            !.stops = [k \in DOMAIN @ |->
               IF @[k][s] = Pending
                 THEN [@[k] EXCEPT ![s] = Resolved(sv.exitStatus[1])]
                 ELSE @[k]],
            !.service[s].waiters = FALSE,
            !.service[s].exitPending = {},
            !.service[s].exits =
               @ \cup {<<st, Resolved(sv.exitStatus[1])>> : st \in sv.exitPending},
            !.service[s].results =
               IF sv.waiters THEN @ \cup {<<"waited", Resolved(sv.exitStatus[1])>>}
                             ELSE @]
    ELSE W

\* the listeners left out: a Service that stops does not stop the other one
statusChangedIgnored(W, status) == W

\* the statusChanged listeners that the Launcher constructor registered
statusChanged(W, status) ==
  IF status = Stopped THEN LauncherStop(W, DefaultTimeout) ELSE W

\* onStopped(code, signal, err), with the statusChanged listeners it runs:
\* first the one of the Launcher constructor, then those of waitForStop().
\* `peer` remembers the status the other Service had at this moment.
onStopped(W, s, es) ==
  Bind([W EXCEPT !.service[s].exitStatus = Some(es),
                 !.service[s].killTimer = "null",
                 !.service[s].proc = Null,
                 !.service[s].peer = W.service[Other(s)].status], LAMBDA W1 :
  Bind(setStatus(W1, s, Stopped), LAMBDA W2 :
  Bind(statusChanged(W2, Stopped), LAMBDA W3 : waitForStop(W3, s))))

-----------------------------------------------------------------------------
(* Microtask bookkeeping *)

\* Promise.all of a Launcher.stop() call is rejected as soon as one of the
\* two promises is, and fulfilled when both are
Settled(r) ==
  \/ r.wallet = Rejected
  \/ r.node = Rejected
  \/ (r.wallet # Pending /\ r.node # Pending)

World == [service |-> service, procs |-> procs, stops |-> stops]

Apply(W0) ==
  \E W \in {W0} :
    /\ service' = W.service
    /\ procs' = W.procs
    /\ stops' = SelectSeq(W.stops, LAMBDA r : ~Settled(r))
    /\ thenQ' = thenQ \o SelectSeq(W.stops, Settled)

\* no microtask is pending: the event loop takes the next macrotask
Quiet == startQ = <<>> /\ thenQ = <<>>

-----------------------------------------------------------------------------

Init ==
  /\ service = [s \in Svc |->
       [status |-> NotStarted, cfg |-> FALSE, proc |-> Null, exitStatus |-> Null,
        killTimer |-> "null", timeout |-> Null, stale |-> 0, events |-> <<>>,
        waiters |-> FALSE, results |-> {}, again |-> FALSE, peer |-> "none",
        exitPending |-> {}, exits |-> {}, errlog |-> 0]]
  /\ cfgP = [s \in Svc |-> "pending"]
  /\ awaiting = [s \in Svc |-> 0]
  /\ startQ = <<>>
  /\ thenQ = <<>>
  /\ procs = [s \in Svc |-> <<>>]
  /\ stops = <<>>
  /\ stopOutcomes = {}
  /\ starts = <<>>
  /\ returned = [s \in Svc |-> {}]
  /\ apiPort = 0
  /\ exited = FALSE
  /\ exitLog = <<>>
  /\ readyCount = 0
  /\ calls = [start |-> 0, stop |-> 0, signal |-> 0, wait |-> 0]
  /\ exitCode = Null

-----------------------------------------------------------------------------
(* Launcher *)

\* the process id is returned while there is a process, whatever the status
startResultWhileProc(s) ==
  LET sv == service[s] IN
  IF sv.proc # Null THEN pidOf(procs, s, sv.proc[1]) ELSE Some(-1)

\* what Service.start() returns without suspending; `again` tells that
\* start() has been called on a Started Service ("already started")
startResult(s) ==
  LET sv == service[s] IN
  IF sv.status = Started /\ sv.proc # Null THEN pidOf(procs, s, sv.proc[1])
                                           ELSE Some(-1)

\* Launcher.start(): Service.start() of the node, then of the wallet, up to
\* `await cfgP`; then waitForApi() and the `ready` / `exit` listeners
LauncherStartUpTo(n) ==
  /\ calls.start < n
  /\ calls' = [calls EXCEPT !.start = @ + 1]
  /\ awaiting' = [s \in Svc |->
       IF service[s].status = NotStarted /\ cfgP[s] = "pending"
         THEN awaiting[s] + 1 ELSE awaiting[s]]
  /\ startQ' = startQ
       \o (IF service["node"].status = NotStarted /\ cfgP["node"] = "resolved"
             THEN <<"node">> ELSE <<>>)
       \o (IF service["wallet"].status = NotStarted /\ cfgP["wallet"] = "resolved"
             THEN <<"wallet">> ELSE <<>>)
  /\ returned' = [s \in Svc |->
       IF service[s].status = NotStarted THEN returned[s]
                                         ELSE returned[s] \cup {startResult(s)}]
  /\ starts' = Append(starts, [promise |-> "pending", timer |-> TRUE,
                               client |-> "none"])
  /\ service' = [s \in Svc |->
       [service[s] EXCEPT !.again = @ \/ service[s].status = Started]]
  /\ UNCHANGED <<exitCode, cfgP, thenQ, procs, stops, stopOutcomes, apiPort,
                 exited, exitLog, readyCount>>

LauncherStart == LauncherStartUpTo(MaxStart)

LauncherStartPolled == LauncherStartUpTo(MaxPolls)

\* Launcher.stop() called by the API user, with the default timeout
UserStop ==
  /\ calls.stop < MaxStop
  /\ calls' = [calls EXCEPT !.stop = @ + 1]
  /\ Apply(LauncherStop(World, DefaultTimeout))
  /\ UNCHANGED <<exitCode, cfgP, awaiting, startQ, stopOutcomes, starts, returned,
                 apiPort, exited, exitLog, readyCount>>

\* Service.waitForExit() called by the API user on Service s.  `exits`
\* collects how these promises are settled, each with the status the Service
\* had at the call (Rejected: the call threw), and `exitPending` the statuses
\* at the calls whose promise is still pending.
UserWaitForExit(s) ==
  /\ calls.wait < MaxWait
  /\ calls' = [calls EXCEPT !.wait = @ + 1]
  /\ LET st == service[s].status IN
     Apply(Bind(waitForExit(World, s), LAMBDA r :
       [r.W EXCEPT !.service[s].exitPending =
                      IF r.res = Pending THEN @ \cup {st} ELSE @,
                   !.service[s].exits =
                      IF r.res = Pending THEN @ ELSE @ \cup {<<st, r.res>>}]))
  /\ UNCHANGED <<exitCode, cfgP, awaiting, startQ, stopOutcomes, starts, returned,
                 apiPort, exited, exitLog, readyCount>>

\* the handler of installSignalHandlers()
SignalHandler ==
  /\ Quiet
  /\ calls.signal < MaxSignal
  /\ calls' = [calls EXCEPT !.signal = @ + 1]
  /\ Apply(stop(stop(World, "wallet", 0).W, "node", 0).W)
  /\ UNCHANGED <<exitCode, cfgP, awaiting, startQ, stopOutcomes, starts, returned,
                 apiPort, exited, exitLog, readyCount>>

\* the `exit` event: the listeners of the pending Launcher.start() promises
emitExit(ss) ==
  [i \in DOMAIN ss |->
     IF ss[i].promise = "pending" THEN [ss[i] EXCEPT !.promise = "rejected"]
                                  ELSE ss[i]]

\* the latch left out: every Launcher.stop() emits `exit`
exitGuardOff(ex) == TRUE

\* `if (!this.exited)`: the latch of the `exit` event
exitGuard(ex) == ~ex

\* the `.then` callback of Launcher.stop(), or the rejection of its Promise.all
RunThen ==
  /\ startQ = <<>>
  /\ thenQ # <<>>
  /\ LET r == Head(thenQ)
         ok == r.wallet # Rejected /\ r.node # Rejected
         status == [wallet |-> r.wallet[2], node |-> r.node[2]]
     IN /\ thenQ' = Tail(thenQ)
        /\ stopOutcomes' = stopOutcomes
                            \cup {IF ok THEN Resolved(status) ELSE Rejected}
        /\ IF ok /\ exitGuard(exited)
             THEN /\ exitLog' = Append(exitLog, status)
                  /\ starts' = emitExit(starts)
                  /\ exited' = TRUE
             ELSE UNCHANGED <<exitLog, starts, exited>>
  /\ UNCHANGED <<exitCode, service, cfgP, awaiting, startQ, procs, stops, returned,
                 apiPort, readyCount, calls>>

\* the wallet's descriptor is made without waiting for the node's
ResolveCfgUnchained(s) ==
  /\ Quiet
  /\ cfgP[s] = "pending"
  /\ cfgP' = [cfgP EXCEPT ![s] = "resolved"]
  /\ apiPort' = IF s = "wallet" THEN WalletApiPort ELSE apiPort
  /\ startQ' = [i \in 1..awaiting[s] |-> s]
  /\ awaiting' = [awaiting EXCEPT ![s] = 0]
  /\ UNCHANGED <<exitCode, service, thenQ, procs, stops, stopOutcomes, starts, returned,
                 exited, exitLog, readyCount, calls>>

\* makeServiceCommands(): the descriptor promise of s is fulfilled; the
\* wallet's is chained on the node's.  The suspended start() calls resume.
ResolveCfg(s) ==
  /\ Quiet
  /\ cfgP[s] = "pending"
  /\ s = "wallet" => cfgP["node"] = "resolved"
  /\ cfgP' = [cfgP EXCEPT ![s] = "resolved"]
  /\ apiPort' = IF s = "wallet" THEN WalletApiPort ELSE apiPort
  /\ startQ' = [i \in 1..awaiting[s] |-> s]
  /\ awaiting' = [awaiting EXCEPT ![s] = 0]
  /\ UNCHANGED <<exitCode, service, thenQ, procs, stops, stopOutcomes, starts, returned,
                 exited, exitLog, readyCount, calls>>

\* the descriptor promise of the node is rejected, and with it the wallet's;
\* `await cfgP` throws in the suspended start() calls
RejectCfg ==
  /\ Quiet
  /\ cfgP["node"] = "pending"
  /\ cfgP' = [s \in Svc |-> "rejected"]
  /\ awaiting' = [s \in Svc |-> 0]
  /\ UNCHANGED <<exitCode, service, startQ, thenQ, procs, stops, stopOutcomes, starts,
                 returned, apiPort, exited, exitLog, readyCount, calls>>

-----------------------------------------------------------------------------
(* Service.start() after `cfg = await cfgP`: doStart() *)

\* child_process.spawn() returns a running process, returns a process object
\* that will emit "error" (command not found), or throws
SpawnOutcome == {"spawned", "ENOENT", "throw"}

newProcess(s, outcome) ==
  [st |-> IF outcome = "spawned" THEN "run" ELSE "failed",
   end |-> IF outcome = "spawned"
             THEN Null
             ELSE Some(ServiceExitStatus(s, Null, Null, Some(outcome))),
   kill |-> FALSE,
   sent |-> <<>>]

\* Started is set only when the process runs
doStartWhenRunning(W, s, outcome) ==
  LET W1 == [W EXCEPT !.service[s].cfg = TRUE] IN
  IF outcome = "throw" THEN [W1 EXCEPT !.service[s].errlog = @ + 1]
  ELSE LET W2 == [W1 EXCEPT !.procs[s] = Append(@, newProcess(s, outcome)),
                            !.service[s].proc = Some(Len(W.procs[s]) + 1)]
       IN IF outcome = "spawned" THEN setStatus(W2, s, Started) ELSE W2

doStart(W, s, outcome) ==
  LET W1 == [W EXCEPT !.service[s].cfg = TRUE] IN
  IF outcome = "throw" THEN [W1 EXCEPT !.service[s].errlog = @ + 1]
  ELSE setStatus([W1 EXCEPT !.procs[s] = Append(@, newProcess(s, outcome)),
                            !.service[s].proc = Some(Len(W.procs[s]) + 1)],
                 s, Started)

RunStart ==
  /\ startQ # <<>>
  /\ \E outcome \in SpawnOutcome :
       LET s == Head(startQ)
           W == doStart(World, s, outcome)
       IN /\ Apply(W)
          /\ returned' = IF outcome = "throw" THEN returned
                         ELSE [returned EXCEPT
                                 ![s] = @ \cup {pidOf(W.procs, s, Len(W.procs[s]))}]
  /\ startQ' = Tail(startQ)
  /\ UNCHANGED <<exitCode, cfgP, awaiting, stopOutcomes, starts, apiPort, exited,
                 exitLog, readyCount, calls>>

-----------------------------------------------------------------------------
(* Child processes and timers *)

\* the i-th child process of s ends, and the "exit" listener that doStart()
\* attached to it runs
ProcExit(s, i) ==
  /\ Quiet
  /\ i \in DOMAIN procs[s]
  /\ procs[s][i].st = "run"
  /\ \E e \in Endings(s, procs[s][i]) :
       Apply(onStopped([World EXCEPT !.procs[s][i].st = "gone"], s, e))
  /\ UNCHANGED <<exitCode, cfgP, awaiting, startQ, stopOutcomes, starts, returned,
                 apiPort, exited, exitLog, readyCount, calls>>

\* the listener drops the error it was given
ProcErrorDropped(s, i) ==
  /\ Quiet
  /\ i \in DOMAIN procs[s]
  /\ procs[s][i].st = "failed"
  /\ Apply(onStopped([World EXCEPT !.procs[s][i].st = "gone",
                                   !.procs[s][i].end = Null,
                                   !.service[s].errlog = @ + 1],
                     s, defaultExitStatus(s)))
  /\ UNCHANGED <<exitCode, cfgP, awaiting, startQ, stopOutcomes, starts, returned,
                 apiPort, exited, exitLog, readyCount, calls>>

\* the "error" listener that doStart() attached to a child process that could
\* not be spawned
ProcError(s, i) ==
  /\ Quiet
  /\ i \in DOMAIN procs[s]
  /\ procs[s][i].st = "failed"
  /\ Apply(onStopped([World EXCEPT !.procs[s][i].st = "gone",
                                   !.procs[s][i].end = Null,
                                   !.service[s].errlog = @ + 1],
                     s, procs[s][i].end[1]))
  /\ UNCHANGED <<exitCode, cfgP, awaiting, startQ, stopOutcomes, starts, returned,
                 apiPort, exited, exitLog, readyCount, calls>>

\* the timeout asks again instead of killing
forceKillTerm(ps, s, i) == Signal(ps, s, i, "SIGTERM")

\* `proc.kill("SIGKILL")` of the kill timer
forceKill(ps, s, i) == Signal(ps, s, i, "SIGKILL")

\* the callback of a setTimeout() of doStop(): the one killTimer refers to,
\* or an earlier one whose handle was overwritten
TimerFire(s) ==
  /\ Quiet
  /\ \E current \in BOOLEAN :
       /\ IF current THEN service[s].killTimer = "armed"
                     ELSE service[s].stale > 0
       /\ LET W1 == IF current
                      THEN [World EXCEPT !.service[s].killTimer = "fired"]
                      ELSE [World EXCEPT !.service[s].stale = @ - 1]
              pr == service[s].proc
          IN Apply(IF pr = Null THEN W1
                   ELSE [W1 EXCEPT !.procs = forceKill(@, s, pr[1])])
  /\ UNCHANGED <<exitCode, cfgP, awaiting, startQ, stopOutcomes, starts, returned,
                 apiPort, exited, exitLog, readyCount, calls>>

-----------------------------------------------------------------------------
(* waitForApi(): the readiness poll of one Launcher.start() call *)

stopWaiting ==
  \/ Rank(service["node"].status) > Rank(Started)
  \/ Rank(service["wallet"].status) > Rank(Started)

\* the wallet API server accepts connections only while a wallet runs
Listening == \E i \in DOMAIN procs["wallet"] : procs["wallet"][i].st = "run"

\* the setInterval() callback
PollTick(k) ==
  /\ Quiet
  /\ k \in DOMAIN starts
  /\ starts[k].timer
  /\ stopWaiting \/ (apiPort # 0 /\ starts[k].client # "connecting")
  /\ starts' = IF stopWaiting
                 THEN [starts EXCEPT ![k].timer = FALSE]
                 ELSE [starts EXCEPT ![k].client = "connecting"]
  /\ UNCHANGED <<exitCode, service, cfgP, awaiting, startQ, thenQ, procs, stops,
                 stopOutcomes, returned, apiPort, exited, exitLog, readyCount,
                 calls>>

\* the `ready` event: the listeners of the pending Launcher.start() promises
emitReady(ss) ==
  [i \in DOMAIN ss |->
     IF ss[i].promise = "pending" THEN [ss[i] EXCEPT !.promise = "resolved"]
                                  ELSE ss[i]]

\* the connect listener of the socket: clearInterval() and ready()
ConnectOk(k) ==
  /\ Quiet
  /\ starts[k].client = "connecting"
  /\ Listening
  /\ starts' = emitReady([starts EXCEPT ![k].timer = FALSE, ![k].client = "open"])
  /\ readyCount' = readyCount + 1
  /\ UNCHANGED <<exitCode, service, cfgP, awaiting, startQ, thenQ, procs, stops,
                 stopOutcomes, returned, apiPort, exited, exitLog, calls>>

-----------------------------------------------------------------------------

\* what the Services and the Launcher do besides starting and polling
Rest ==
  \/ UserStop
  \/ SignalHandler
  \/ RunThen
  \/ \E s \in Svc : ResolveCfg(s)
  \/ RejectCfg
  \/ RunStart
  \/ \E s \in Svc : \E i \in DOMAIN procs[s] : ProcExit(s, i)
  \/ \E s \in Svc : \E i \in DOMAIN procs[s] : ProcError(s, i)
  \/ \E s \in Svc : TimerFire(s)

\* the Services and the Launcher without the readiness poll
Core ==
  \/ LauncherStart
  \/ Rest

SpecCore == Init /\ [][Core]_vars

\* the Launcher with the readiness poll
Next ==
  \/ LauncherStartPolled
  \/ Rest
  \/ \E s \in Svc : UserWaitForExit(s)
  \/ \E k \in DOMAIN starts : PollTick(k)
  \/ \E k \in DOMAIN starts : ConnectOk(k)

\* a child process that was sent SIGKILL ends
Killed(s, i) == i \in DOMAIN procs[s] /\ procs[s][i].kill /\ ProcExit(s, i)

\* The event loop runs every pending microtask, timers fire, the descriptor
\* promises are settled, a failed spawn is reported and a killed process ends.
\* Nothing obliges the API user to call, nor a child process to end by itself.
Fairness ==
  /\ WF_vars(RunStart)
  /\ WF_vars(RunThen)
  /\ WF_vars(RejectCfg \/ \E s \in Svc : ResolveCfg(s))
  /\ \A s \in Svc : WF_vars(TimerFire(s))
  /\ \A s \in Svc : \A i \in 1..MaxPolls : WF_vars(ProcError(s, i))
  /\ \A s \in Svc : \A i \in 1..MaxPolls : WF_vars(Killed(s, i))
  /\ \A k \in 1..MaxPolls : WF_vars(PollTick(k))

Spec == Init /\ [][Next]_vars /\ Fairness

\* Launcher.start() called up to MaxStart times, each call with its
\* readiness poll, by a user who never calls stop(): the Services stop only
\* by themselves and through the Launcher's own stop() when one has stopped
NextPolls ==
  \/ LauncherStart
  \/ RunThen
  \/ \E s \in Svc : ResolveCfg(s)
  \/ RejectCfg
  \/ RunStart
  \/ \E s \in Svc : \E i \in DOMAIN procs[s] : ProcExit(s, i)
  \/ \E s \in Svc : \E i \in DOMAIN procs[s] : ProcError(s, i)
  \/ \E s \in Svc : TimerFire(s)
  \/ \E k \in DOMAIN starts : PollTick(k)
  \/ \E k \in DOMAIN starts : ConnectOk(k)

\* The fairness of Spec, for the processes and polls of MaxStart calls
FairnessPolls ==
  /\ WF_vars(RunStart)
  /\ WF_vars(RunThen)
  /\ WF_vars(RejectCfg \/ \E s \in Svc : ResolveCfg(s))
  /\ \A s \in Svc : WF_vars(TimerFire(s))
  /\ \A s \in Svc : \A i \in 1..MaxStart : WF_vars(ProcError(s, i))
  /\ \A s \in Svc : \A i \in 1..MaxStart : WF_vars(Killed(s, i))
  /\ \A k \in 1..MaxStart : WF_vars(PollTick(k))

SpecPolls == Init /\ [][NextPolls]_vars /\ FairnessPolls

-----------------------------------------------------------------------------
(* cli: the exit code of the supervising program *)

RECURSIVE reduceCode(_, _)
\* _.reduce(statuses, (res, status) => res === null ? status.code : res, res)
reduceCode(statuses, res) ==
  IF statuses = <<>> THEN res
  ELSE reduceCode(Tail(statuses),
                  IF res = Null THEN Head(statuses).code ELSE res)

RECURSIVE reduceSignal(_, _)
\* _.reduce(statuses, (res, status) => res === null ? status.signal : res, res)
reduceSignal(statuses, res) ==
  IF statuses = <<>> THEN res
  ELSE reduceSignal(Tail(statuses),
                    IF res = Null THEN Head(statuses).signal ELSE res)

\* the two results of the signal test are exchanged
combineStatusSwapped(statuses) ==
  LET code == reduceCode(statuses, Null)
      signal == reduceSignal(statuses, Null)
  IN IF code = Null THEN (IF signal = Null THEN 127 ELSE 0) ELSE code[1]

combineStatus(statuses) ==
  LET code == reduceCode(statuses, Null)
      signal == reduceSignal(statuses, Null)
  IN IF code = Null THEN (IF signal = Null THEN 0 ELSE 127) ELSE code[1]

\* exit codes a child process may end with
ExitCodes == {0, 1, 2, 127}

\* the exit statuses a Stopped Service can hold
ExitStatuses(s) ==
  {ServiceExitStatus(s, Some(c), Null, Null) : c \in ExitCodes}
    \cup {ServiceExitStatus(s, Null, Some(sig), Null) :
              sig \in {"SIGTERM", "SIGKILL"}}
    \cup {ServiceExitStatus(s, Null, Null, Some("ENOENT")), defaultExitStatus(s)}

\* the `exit` listener of cli: process.exit(combineStatus([wallet, node]))
CliExit ==
  /\ exitLog # <<>>
  /\ exitCode = Null
  /\ exitCode' = Some(combineStatus(<<exitLog[1].wallet, exitLog[1].node>>))
  /\ UNCHANGED <<service, cfgP, awaiting, startQ, thenQ, procs, stops,
                 stopOutcomes, starts, returned, apiPort, exited, exitLog,
                 readyCount, calls>>

\* the Launcher has emitted `exit` with the exit statuses of its two Stopped
\* Services; only the payload matters to the listener
InitCli ==
  /\ exitLog \in {<<[wallet |-> w, node |-> n]>> :
                     w \in ExitStatuses("wallet"), n \in ExitStatuses("node")}
  /\ service = [s \in Svc |->
       [status |-> Stopped, cfg |-> TRUE, proc |-> Null,
        exitStatus |-> Some(exitLog[1][s]),
        killTimer |-> "null", timeout |-> Null, stale |-> 0, events |-> <<>>,
        waiters |-> FALSE, results |-> {}, again |-> FALSE, peer |-> "none",
        exitPending |-> {}, exits |-> {}, errlog |-> 0]]
  /\ cfgP = [s \in Svc |-> "resolved"]
  /\ awaiting = [s \in Svc |-> 0]
  /\ startQ = <<>>
  /\ thenQ = <<>>
  /\ procs = [s \in Svc |-> <<>>]
  /\ stops = <<>>
  /\ stopOutcomes = {}
  /\ starts = <<>>
  /\ returned = [s \in Svc |-> {}]
  /\ apiPort = WalletApiPort
  /\ exited = TRUE
  /\ readyCount = 0
  /\ calls = [start |-> 1, stop |-> 0, signal |-> 0, wait |-> 0]
  /\ exitCode = Null

SpecCli == InitCli /\ [][CliExit]_vars

-----------------------------------------------------------------------------
(* Properties *)

Count(q, x) == Cardinality({i \in DOMAIN q : q[i] = x})

SigTerm(s) == ServiceExitStatus(s, Null, Some("SIGTERM"), Null)
SigKill(s) == ServiceExitStatus(s, Null, Some("SIGKILL"), Null)

\* a child process ended without the Service having asked it to
Crashed(s) ==
  \E i \in DOMAIN procs[s] : procs[s][i].st = "gone" /\ procs[s][i].sent = <<>>

\* Nothing is left that the program does by itself: no microtask, no armed
\* timer, no descriptor being resolved, no spawn failure to report, no killed
\* process to reap, no poll tick that changes anything.
Quiescent ==
  /\ Quiet
  /\ \A s \in Svc :
       /\ service[s].killTimer # "armed"
       /\ service[s].stale = 0
       /\ cfgP[s] # "pending"
       /\ \A i \in DOMAIN procs[s] :
            /\ procs[s][i].st # "failed"
            /\ ~(procs[s][i].st = "run" /\ procs[s][i].kill)
  /\ \A k \in DOMAIN starts : ~ENABLED PollTick(k)

\* C1: the `exit` event is emitted at most once in the lifetime of a Launcher,
\* whatever Launcher.stop() calls, child process crashes and signal handler
\* runs take place.
C1_ExitAtMostOnce == Len(exitLog) <= 1

\* `exit` has been emitted and the `.then` callback of a further, fulfilled
\* Launcher.stop() is about to run, after a call of the user, a run of the
\* signal handler and a crash
C1_Witness ==
  /\ Len(exitLog) = 1
  /\ thenQ # <<>>
  /\ Head(thenQ).wallet # Rejected /\ Head(thenQ).node # Rejected
  /\ calls.stop >= 1 /\ calls.signal >= 1
  /\ \E s \in Svc : Crashed(s)

\* Service s went from Started to Stopped because its process was killed by
\* somebody else: the Service itself never asked it to stop
KilledExternally(s) ==
  /\ service[s].events = <<Started, Stopped>>
  /\ service[s].exitStatus = Some(SigTerm(s))

\* C2: when the process of one Service is killed externally while both
\* Services are Started, the other Service eventually reaches Stopped and the
\* `exit` event has been emitted exactly once.
C2_CrossFailure ==
  \A s \in Svc :
    (/\ KilledExternally(s)
     /\ service[s].peer = Started
     /\ service[Other(s)].status \in {Started, Stopping})
      ~> (service[Other(s)].status = Stopped /\ Len(exitLog) = 1)

\* the node was killed, and the wallet was stopped for it
C2_Witness ==
  /\ KilledExternally("node")
  /\ service["node"].peer = Started
  /\ service["wallet"].events = <<Started, Stopping, Stopped>>
  /\ Len(exitLog) = 1

\* C3: once one of the two Services has reached Stopped, the other Service
\* never spawns a process afterwards.
C3_NoSpawnAfterCounterpartStopped ==
  [][\A s \in Svc :
       service[Other(s)].status = Stopped => Len(procs'[s]) = Len(procs[s])]_vars

\* C4: the status of a Service never decreases in the order NotStarted <
\* Started < Stopping < Stopped; in particular nothing leaves Stopped.
C4_StatusMonotonic ==
  [][\A s \in Svc : Rank(service'[s].status) >= Rank(service[s].status)]_vars

\* what the stop() promises of s were fulfilled with, for the calls made when
\* the Service was Started, Stopping or already Stopped
StopResults(s) ==
  {x[2] : x \in {y \in service[s].results : y[1] \in {"waited", Stopped}}}

\* C5: the stop() calls on a Service that was Started when the first one was
\* made all resolve to the same ServiceExitStatus, and the Service emits
\* exactly one Stopping and exactly one Stopped event.
C5_StopIdempotent ==
  \A s \in Svc :
    Count(service[s].events, Stopping) >= 1 =>
      /\ Cardinality(StopResults(s)) <= 1
      /\ Count(service[s].events, Stopping) = 1
      /\ Count(service[s].events, Stopped) <= 1
      /\ service[s].status = Stopped => Count(service[s].events, Stopped) = 1

\* C6: a start() on a Service that is already Started returns the process id
\* the first start() returned, spawns no second process, and the events of the
\* Service contain exactly one Starting and one Started.
C6_StartIdempotent ==
  \A s \in Svc :
    service[s].again =>
      /\ Cardinality(returned[s]) = 1
      /\ Len(procs[s]) = 1
      /\ Count(service[s].events, "Starting") = 1
      /\ Count(service[s].events, Started) = 1

\* C7: stop() on a NotStarted Service resolves with the ServiceExitStatus whose
\* code, signal and error are null, leaves the Service Stopped, and the Service
\* never passes through Started.
C7_StopNeverStarted ==
  \A s \in Svc :
    \A x \in service[s].results :
      x[1] = NotStarted =>
        /\ x[2] = Resolved(defaultExitStatus(s))
        /\ service[s].status = Stopped
        /\ Count(service[s].events, Started) = 0

\* the kill timer of s fires while the process of s is still running
TimerFiresOnRunning(s) ==
  /\ TimerFire(s)
  /\ service[s].proc # Null
  /\ procs[s][service[s].proc[1]].st = "run"

\* C8: when the kill timer fires on a process that is still running, the
\* Service sends it SIGKILL; when that process ends the Service is Stopped with
\* exit code null and signal SIGKILL; and a Stopping Service reaches Stopped.
C8_TimeoutEscalation ==
  /\ [][\A s \in Svc :
          /\ TimerFiresOnRunning(s) =>
               LET p == procs'[s][service[s].proc[1]]
               IN p.kill /\ p.sent[Len(p.sent)] = "SIGKILL"
          /\ \A i \in DOMAIN procs[s] :
               (/\ procs[s][i].kill
                /\ procs[s][i].st = "run"
                /\ procs'[s][i].st = "gone") =>
                 /\ service'[s].status = Stopped
                 /\ service'[s].exitStatus = Some(SigKill(s))]_vars
  /\ \A s \in Svc : service[s].status = Stopping ~> service[s].status = Stopped

\* a Service was stopped by the forced kill
C8_Witness ==
  \E s \in Svc :
    /\ service[s].events = <<Started, Stopping, Stopped>>
    /\ service[s].exitStatus = Some(SigKill(s))
    /\ procs[s][1].kill

\* C9: if a Service reaches Stopped before the wallet API port has accepted a
\* connection, the promise of Launcher.start() is rejected, not left pending,
\* with the exit status of both Services.
C9_StartRejected ==
  (Quiescent /\ readyCount = 0 /\ \E s \in Svc : service[s].status = Stopped) =>
    /\ \A k \in DOMAIN starts : starts[k].promise = "rejected"
    /\ Len(exitLog) = 1
    /\ \A s \in Svc : service[s].exitStatus = Some(exitLog[1][s])

\* C10: every promise returned by Launcher.stop() is fulfilled, none is
\* rejected or left pending, and the `exit` event is emitted.
C10_StopResolves ==
  /\ Rejected \notin stopOutcomes
  /\ (Quiescent /\ (stops # <<>> \/ stopOutcomes # {})) =>
       (stops = <<>> /\ Len(exitLog) = 1)

\* C11: the promises returned by the Launcher.stop() calls on one Launcher are
\* all fulfilled with the same LaunchExitStatus: the same wallet exit status
\* and the same node exit status.
C11_StopPayloadsEqual == Cardinality(stopOutcomes \ {Rejected}) <= 1

\* the process of s could not be spawned: its exit status carries the error
SpawnFailed(s) ==
  /\ service[s].exitStatus # Null
  /\ service[s].exitStatus[1].err # Null

Queued(q, s) == Cardinality({k \in DOMAIN q : q[k] = s})

\* C14: start() on a Service that is Stopping or Stopped returns the error
\* sentinel -1, spawns no process, changes no status, emits no event and is
\* not queued for later execution.
C14_StartRefused ==
  [][\A s \in Svc :
       (calls'.start > calls.start /\ service[s].status \in {Stopping, Stopped}) =>
         /\ returned'[s] = returned[s] \cup {Some(-1)}
         /\ procs'[s] = procs[s]
         /\ service'[s].status = service[s].status
         /\ service'[s].events = service[s].events
         /\ service'[s].proc = service[s].proc
         /\ awaiting'[s] = awaiting[s]
         /\ Queued(startQ', s) = Queued(startQ, s)]_vars

\* start() was called on a Service that was Stopping or Stopped
C14_Witness ==
  \E s \in Svc :
    /\ Some(-1) \in returned[s]
    /\ service[s].status \in {Stopping, Stopped}
    /\ calls.start = 2

\* C15: every waitForExit() promise obtained while the Service is Started or
\* Stopping is resolved, with the exit status, when the Service reaches
\* Stopped, whichever way it gets there; and waitForExit() on a Stopped
\* Service resolves at once with the stored exit status.
C15_WaitForExitResolves ==
  /\ [](\A s \in Svc :
          service[s].status = Stopped =>
            /\ service[s].exitStatus # Null
            /\ service[s].exitPending = {}
            /\ ~service[s].waiters
            /\ \A k \in DOMAIN stops : stops[k][s] # Pending)
  /\ [][\A s \in Svc :
          /\ (service[s].status # Stopped /\ service'[s].status = Stopped) =>
               \A st \in service[s].exitPending :
                 <<st, Resolved(service'[s].exitStatus[1])>> \in service'[s].exits
          /\ (UserWaitForExit(s) /\ service[s].status = Stopped) =>
               service'[s].exits = service[s].exits
                 \cup {<<Stopped, Resolved(service[s].exitStatus[1])>>}]_vars

\* a waitForExit() promise obtained while the Service was Started was
\* fulfilled when its process, stopped with a timeout, was killed
C15_Witness ==
  \E s \in Svc :
    /\ service[s].status = Stopped
    /\ service[s].events = <<Started, Stopping, Stopped>>
    /\ <<Started, Resolved(SigKill(s))>> \in service[s].exits

\* the process that Service s refers to ends while s is Started
ExitsWhileStarted(s) ==
  /\ service[s].status = Started
  /\ service[s].proc # Null
  /\ procs[s][service[s].proc[1]].st = "run"
  /\ procs'[s][service[s].proc[1]].st = "gone"

\* C16: a process that ends while its Service is Started takes the Service
\* from Started to Stopped with the event sequence Starting, Started, Stopped,
\* and a stop() called afterwards resolves with the recorded exit status and
\* emits no event.
C16_ExitWhileStarted ==
  [][\A s \in Svc :
       /\ ExitsWhileStarted(s) =>
            /\ service'[s].status = Stopped
            /\ service'[s].events = <<"Starting", Started, Stopped>>
       /\ (/\ calls'.stop > calls.stop
           /\ service[s].status = Stopped
           /\ Count(service[s].events, Stopping) = 0) =>
            /\ service'[s].events = service[s].events
            /\ <<Stopped, Resolved(service[s].exitStatus[1])>>
                 \in service'[s].results]_vars

C18_ExitStatusOnce ==
  [][\A s \in Svc :
       service[s].exitStatus # Null =>
         /\ service'[s].exitStatus = service[s].exitStatus
         /\ \A r \in (service'[s].results \ service[s].results)
                       \cup (service'[s].exits \ service[s].exits) :
              r[2] = Resolved(service[s].exitStatus[1])]_vars

\* some child process is running
Running == \E s \in Svc : \E i \in DOMAIN procs[s] : procs[s][i].st = "run"

\* C19: once the signal handler has run, whatever state the two Services
\* were in, no child process is spawned any more, every kill timer that is
\* armed when the handler returns is one of zero delay, and eventually no
\* child process is running.
C19_SignalStopsChildren ==
  /\ [][calls.signal > 0 => \A s \in Svc : Len(procs'[s]) = Len(procs[s])]_vars
  /\ [][SignalHandler =>
          \A s \in Svc : service'[s].killTimer = "armed" =>
                           service'[s].timeout = Some(0)]_vars
  /\ (calls.signal > 0 ~> ~Running)

\* the signal handler calls stop(0) on Service s, which is Started
StopNow(s) == SignalHandler /\ service[s].status = Started

\* C20: stop(0) on a Started Service arms the kill timer with a delay of
\* zero seconds, so that no time is given to the process to exit by itself;
\* when that timer fires on the running process SIGKILL is sent to it, and
\* the Service reaches Stopped.
C20_StopZeroKills ==
  /\ [][\A s \in Svc :
          /\ StopNow(s) =>
               /\ service'[s].status = Stopping
               /\ service'[s].killTimer = "armed"
               /\ service'[s].timeout = Some(0)
          /\ (TimerFiresOnRunning(s) /\ service[s].timeout = Some(0)) =>
               LET p == procs'[s][service[s].proc[1]]
               IN p.kill /\ p.sent[Len(p.sent)] = "SIGKILL"]_vars
  /\ \A s \in Svc :
       (service[s].status = Stopping /\ service[s].timeout = Some(0))
         ~> service[s].status = Stopped

\* a Service that the signal handler stopped was killed by the timer of
\* zero delay
C20_Witness ==
  \E s \in Svc :
    /\ calls.signal = 1 /\ calls.stop = 0
    /\ service[s].events = <<Started, Stopping, Stopped>>
    /\ service[s].timeout = Some(0)
    /\ service[s].exitStatus = Some(SigKill(s))

\* C21: every change of a Service's status is announced by exactly one
\* statusChanged emission carrying the new status, in the step of the change,
\* and nothing is emitted when the status does not change, so the emitted
\* sequence is the sequence of the statuses taken after NotStarted.
C21_StatusAnnounced ==
  [][\A s \in Svc :
       IF service'[s].status # service[s].status
         THEN service'[s].events = Append(service[s].events, service'[s].status)
         ELSE service'[s].events = service[s].events]_vars

\* both child processes are running
BothRunning ==
  \A s \in Svc : \E i \in DOMAIN procs[s] : procs[s][i].st = "run"

\* the interval timer of the k-th Launcher.start() call is set
Polling(k) == k \in DOMAIN starts /\ starts[k].timer

\* C22: a readiness poll that goes on while both processes run does not go
\* on for ever: it ends, by its deadline if the port never accepts a
\* connection, or else one of the processes ends.
C22_ReadinessTimeout ==
  \A k \in 1..MaxPolls :
    (Polling(k) /\ BothRunning) ~> (~Polling(k) \/ ~BothRunning)

\* C23: from a state where one of the Services is Stopping or Stopped, no
\* step starts a connection attempt and no step emits `ready`, not even the
\* success of an attempt that was already under way.
C23_PollingStops ==
  [][stopWaiting =>
       /\ readyCount' = readyCount
       /\ \A k \in DOMAIN starts :
            starts'[k].client = "connecting" => starts[k].client = "connecting"]_vars

\* C24: at most one test connection exists at any time, and no test
\* connection is left, open or being opened, once polling has ended.
C24_TestConnectionsClosed ==
  /\ Cardinality({k \in DOMAIN starts : starts[k].client # "none"}) <= 1
  /\ \A k \in DOMAIN starts : ~starts[k].timer => starts[k].client = "none"

\* the step calls stop() on Service s from outside s: the API user's
\* Launcher.stop(), the signal handler, or the Launcher's listener that the
\* other Service's Stopped event runs
StopCalled(s) ==
  \/ calls'.stop > calls.stop
  \/ calls'.signal > calls.signal
  \/ Count(service'[Other(s)].events, Stopped)
       > Count(service[Other(s)].events, Stopped)

\* the step leaves the status, the events, the kill timers and the processes
\* of Service s as they are
StopFrame(s) ==
  /\ service'[s].status = service[s].status
  /\ service'[s].events = service[s].events
  /\ service'[s].killTimer = service[s].killTimer
  /\ service'[s].timeout = service[s].timeout
  /\ service'[s].stale = service[s].stale
  /\ service'[s].proc = service[s].proc
  /\ procs'[s] = procs[s]

\* stop() on a Stopping or Stopped Service changes nothing of the Service
StopIsNoOp ==
  [][\A s \in Svc :
       (StopCalled(s) /\ service[s].status \in {Stopping, Stopped})
         => StopFrame(s)]_vars

\* C25: stop() on a Stopping or Stopped Service causes no transition, no
\* event, no signal and no arming of the kill timer, and the shutdown sequence
\* is run by the first stop() received while Started only: a Service takes
\* Stopping at most once.
C25_StopFrame ==
  /\ StopIsNoOp
  /\ [](\A s \in Svc : Count(service[s].events, Stopping) <= 1)

\* the shutdown request that the descriptor of Service s asks for
ShutdownRequest(s) ==
  IF descr[s].supportsCleanShutdown THEN "stdin.end" ELSE "SIGTERM"

\* C26: the stop() that takes a Service from Started to Stopping emits
\* Stopping and sends one shutdown request to its process, the closing of
\* stdin or SIGTERM as the descriptor says; no process is sent more than one
\* shutdown request, and SIGKILL is sent by the kill timer only.
C26_ShutdownRequest ==
  /\ [][\A s \in Svc :
          /\ (service[s].status = Started /\ service'[s].status = Stopping) =>
               /\ service'[s].events = Append(service[s].events, Stopping)
               /\ service[s].proc # Null
               /\ \A i \in DOMAIN procs[s] :
                    procs'[s][i].sent =
                      IF i = service[s].proc[1]
                        THEN Append(procs[s][i].sent, ShutdownRequest(s))
                        ELSE procs[s][i].sent
          /\ \A i \in DOMAIN procs[s] :
               Count(procs'[s][i].sent, "SIGKILL")
                   > Count(procs[s][i].sent, "SIGKILL")
                 => TimerFire(s)]_vars
  /\ [](\A s \in Svc : \A i \in DOMAIN procs[s] :
          Count(procs[s][i].sent, "stdin.end")
            + Count(procs[s][i].sent, "SIGTERM") <= 1)

\* both Services were stopped while Started, each with the request of its
\* descriptor, and one of them was then killed by the timer
C26_Witness ==
  /\ procs["wallet"] # <<>> /\ procs["node"] # <<>>
  /\ procs["wallet"][1].sent # <<>> /\ procs["node"][1].sent # <<>>
  /\ procs["wallet"][1].sent[1] = "stdin.end"
  /\ procs["node"][1].sent[1] = "SIGTERM"
  /\ \E s \in Svc : procs[s][1].sent = <<ShutdownRequest(s), "SIGKILL">>

\* C27: a Service that goes from Stopping to Stopped cancels its kill timer;
\* while a Service is Stopped no timer that doStop() set is armed, and a
\* process that has ended is never sent anything.
C27_TimerCancelled ==
  /\ [](\A s \in Svc :
          service[s].status = Stopped =>
            service[s].killTimer # "armed" /\ service[s].stale = 0)
  /\ [][\A s \in Svc :
          /\ (service[s].status = Stopping /\ service'[s].status = Stopped) =>
               service'[s].killTimer = "null"
          /\ \A i \in DOMAIN procs[s] :
               procs[s][i].st = "gone" =>
                 procs'[s][i].sent = procs[s][i].sent]_vars

\* C28: the `exit` event is emitted only in a state where both Services are
\* Stopped, and the wallet and node fields of its payload are the exit
\* statuses that the two Services hold.
C28_ExitPayload ==
  [][Len(exitLog') > Len(exitLog) =>
       \A s \in Svc :
         /\ service[s].status = Stopped
         /\ service[s].exitStatus = Some(exitLog'[Len(exitLog')][s])]_vars

\* `exit` has been emitted with the status of a wallet that was killed by the
\* timer and of a node that ended by itself
C28_Witness ==
  /\ Len(exitLog) = 1
  /\ exitLog[1].wallet = SigKill("wallet")
  /\ exitLog[1].node.code = Some(1)

\* C29: a Service holds no process handle while NotStarted or Stopped, holds
\* one while Started or Stopping, and has at most one process in its life.
C29_ProcessHandle ==
  \A s \in Svc :
    /\ service[s].status \in {NotStarted, Stopped} => service[s].proc = Null
    /\ service[s].status \in {Started, Stopping} => service[s].proc # Null
    /\ Len(procs[s]) <= 1

\* the step spawns a wallet process
WalletSpawned == Len(procs'["wallet"]) > Len(procs["wallet"])

StartFailed(s) ==
  \/ calls.start > 0 /\ cfgP[s] = "rejected"
  \/ service[s].cfg /\ procs[s] = <<>> /\ service[s].errlog > 0

\* C31: a Service whose start() has failed reaches Stopped with an exit
\* status that carries the error, and the promises of Launcher.start() do not
\* stay pending.
C31_StartFailureAbsorbed ==
  /\ \A s \in Svc :
       StartFailed(s) ~> (service[s].status = Stopped /\ SpawnFailed(s))
  /\ (\E s \in Svc : StartFailed(s))
       ~> (\A k \in DOMAIN starts : starts[k].promise # "pending")

\* the exit code that the claim describes for the list l of exit statuses
FirstCodeOr127(l) ==
  LET I == {i \in DOMAIN l : l[i].code # Null} IN
  IF I # {}
    THEN l[CHOOSE i \in I : \A j \in I : i <= j].code[1]
    ELSE IF \E i \in DOMAIN l : l[i].signal # Null THEN 127 ELSE 0

\* C32: combineStatus([wallet, node]) is the first non-null exit code in list
\* order and, when both exit codes are null, 127 if a signal is non-null and
\* 0 otherwise.
C32_CombineStatus ==
  exitCode # Null =>
    exitCode = Some(FirstCodeOr127(<<exitLog[1].wallet, exitLog[1].node>>))

\* the cli has exited with the exit code of the node, the wallet having been
\* killed
C32_Witness ==
  /\ exitCode = Some(2)
  /\ exitLog[1].wallet.signal = Some("SIGKILL")
  /\ exitLog[1].node.code = Some(2)

\* C37: the exit code of the cli is 0 only if neither Service ended with an
\* exit code other than 0 or with a signal.
C37_FailureNotMasked ==
  exitCode = Some(0) =>
    \A s \in Svc :
      /\ exitLog[1][s].code \in {Null, Some(0)}
      /\ exitLog[1][s].signal = Null

\* C33: a Service spawns at most one process, whatever start() calls are
\* made and however they interleave with the descriptor's resolution, and
\* its start() calls do not return two different process ids.
C33_OneProcess ==
  \A s \in Svc :
    /\ Len(procs[s]) <= 1
    /\ Cardinality(returned[s] \ {Null, Some(-1)}) <= 1

\* a stop() promise of Service s has been resolved
StopResolved(s) == \E r \in service[s].results : r[2][1] = "resolved"

\* C34: once a stop() of a Service has resolved, a start() that was
\* suspended when stop() was called leaves the Service Stopped when it
\* resumes: the Service is Stopped, stays Stopped and gets no new process.
C34_StopCancelsStart ==
  [][\A s \in Svc :
       (StopResolved(s) /\ Queued(startQ', s) < Queued(startQ, s))
         => /\ service[s].status = Stopped
            /\ service'[s].status = Stopped
            /\ Len(procs'[s]) = Len(procs[s])]_vars

\* C35: a call of waitForExit() only observes: it changes neither the
\* status nor the ExitStatus of any Service, sends no signal to a process
\* and arms no timer.
C35_WaitForExitObserves ==
  [][calls'.wait > calls.wait =>
       /\ procs' = procs
       /\ \A s \in Svc :
            /\ service'[s].status = service[s].status
            /\ service'[s].exitStatus = service[s].exitStatus
            /\ service'[s].killTimer = service[s].killTimer]_vars

\* C36: the readiness poll of one Launcher.start() call emits `ready` at
\* most once (its test connection opens once and stays open), `ready` is
\* emitted only when the API port of the wallet is known, and never once
\* `exit` has been emitted.
C36_ReadyOnce ==
  /\ [][readyCount' # readyCount =>
          /\ readyCount' = readyCount + 1
          /\ apiPort # 0
          /\ ~exited /\ exitLog = <<>>
          /\ \E k \in DOMAIN starts :
               /\ starts[k].client = "connecting"
               /\ starts'[k].client = "open"
               /\ \A j \in DOMAIN starts \ {k} :
                    starts'[j].client = starts[j].client]_vars
  /\ [][\A k \in DOMAIN starts :
          starts[k].client = "open" => starts'[k].client = "open"]_vars

\* C38: once both Services are Stopped, the promise of every
\* Launcher.start() call is eventually settled, whether the call was made
\* before the `exit` event or after it.
C38_StartSettles ==
  \A k \in 1..MaxStart :
    (k \in DOMAIN starts /\ \A s \in Svc : service[s].status = Stopped)
      ~> (k \in DOMAIN starts /\ starts[k].promise # "pending")

====
